---- MODULE Spec2Model ----
(***************************************************************************)
(* CRM dashboard (src/app.py): a Streamlit script that loads a CSV into    *)
(* st.session_state.df_base, geocodes the rows that lack numeric lat/lon   *)
(* through the ORS geocode client, and merges the rows edited in the data  *)
(* editor back into the full dataset by __row_id__.                        *)
(*                                                                         *)
(* A script run is modelled from its first line to its end; the geocoding  *)
(* loop is the only part split into steps (one per row), because the       *)
(* script can be stopped between two rows.  The sleep of rate_ms after     *)
(* each row, the country bias and the charts, map and download change no   *)
(* state and are left out.                                                 *)
(***************************************************************************)
EXTENDS Integers, Sequences, FiniteSets, TLC

\* ------------------------------------------------------------------ bounds
\* Largest number of rows of an uploaded CSV.
MaxRows == 2
\* Largest number of user events (upload, click, toggle, stop) in a behaviour.
MaxEvents == 2

\* ------------------------------------------------------------ column names
LAT == "lat"
LON == "lon"
REMARKS == "Remarks"
ROW_ID == "__row_id__"
LOCATION == "Location"
CUSTOMER == "Customer"

\* ------------------------------------------------------------ cell values
\* A cell is a missing marker (None / NaN), a string (a sequence of
\* characters) or a number.  The three fields are always present so that any
\* two cells can be compared.
NA == [t |-> "na", s |-> <<>>, n |-> 0]
StrV(s) == [t |-> "str", s |-> s, n |-> 0]
NumV(n) == [t |-> "num", s |-> <<>>, n |-> n]

isna(v) == v.t = "na"

DigitChars == <<"0", "1", "2", "3", "4", "5", "6", "7", "8", "9">>

RECURSIVE Digits(_)
\* The decimal text of a natural number.
Digits(n) ==
    IF n < 10 THEN <<DigitChars[n + 1]>>
    ELSE Digits(n \div 10) \o <<DigitChars[(n % 10) + 1]>>

\* Python str() of a cell: str(nan) is "nan".
PyStr(v) ==
    CASE v.t = "na" -> <<"n", "a", "n">>
      [] v.t = "str" -> v.s
      [] v.t = "num" -> Digits(v.n)

\* str.lower(), on the alphabet the model uses.
LowerChar(c) ==
    CASE c = "N" -> "n"
      [] c = "A" -> "a"
      [] c = "P" -> "p"
      [] c = "B" -> "b"
      [] OTHER -> c

lower(s) == [k \in 1..Len(s) |-> LowerChar(s[k])]

RECURSIVE lstrip(_)
lstrip(s) == IF s /= <<>> /\ Head(s) = " " THEN lstrip(Tail(s)) ELSE s

RECURSIVE rstrip(_)
rstrip(s) ==
    IF s /= <<>> /\ s[Len(s)] = " " THEN rstrip(SubSeq(s, 1, Len(s) - 1)) ELSE s

\* str.strip()
strip(s) == rstrip(lstrip(s))

RECURSIVE join(_, _)
\* sep.join(parts)
join(sep, parts) ==
    IF parts = <<>> THEN <<>>
    ELSE IF Len(parts) = 1 THEN parts[1]
    ELSE parts[1] \o sep \o join(sep, Tail(parts))

DigitValue(c) == CHOOSE d \in 0..9 : DigitChars[d + 1] = c

IsDigitString(s) ==
    /\ s /= <<>>
    /\ \A k \in 1..Len(s) : \E d \in 1..10 : DigitChars[d] = s[k]

RECURSIVE ParseNat(_)
ParseNat(s) ==
    IF s = <<>> THEN 0
    ELSE 10 * ParseNat(SubSeq(s, 1, Len(s) - 1)) + DigitValue(s[Len(s)])

\* pd.to_numeric(value, errors="coerce"): a number, or NaN.
to_numeric(v) ==
    CASE v.t = "num" -> v
      [] v.t = "str" /\ IsDigitString(strip(v.s)) -> NumV(ParseNat(strip(v.s)))
      [] OTHER -> NA

\* -------------------------------------------------------------- data frames
\* A DataFrame with the default RangeIndex: the index label of a row is its
\* position.  Every row is a function from the frame's columns to cells.
EmptyFrame == [columns |-> {}, rows |-> <<>>]

RowIds(df) == [k \in 1..Len(df.rows) |-> df.rows[k][ROW_ID]]

\* df[col] = value for a column that may be new.
WithColumn(df, col, value) ==
    [columns |-> df.columns \cup {col},
     rows |-> [k \in 1..Len(df.rows) |->
                 [c \in df.columns \cup {col} |->
                    IF c = col THEN value ELSE df.rows[k][c]]]]

\* An uploaded file: its name and the table pd.read_csv makes of it.
NoFile == [name |-> "", columns |-> {}, rows |-> <<>>]

\* load_csv: Remarks defaults to "", __row_id__ to 1..N in load order.
load_csv(uploaded) ==
    LET df == [columns |-> uploaded.columns, rows |-> uploaded.rows]
        df1 == IF REMARKS \notin df.columns THEN WithColumn(df, REMARKS, StrV(<<>>))
               ELSE df
    IN  IF ROW_ID \notin df1.columns
        THEN [columns |-> df1.columns \cup {ROW_ID},
              rows |-> [k \in 1..Len(df1.rows) |->
                          [c \in df1.columns \cup {ROW_ID} |->
                             IF c = ROW_ID THEN NumV(k) ELSE df1.rows[k][c]]]]
        ELSE df1

\* Lines 79-82: lat and lon columns are created empty when absent.
EnsureColumns(df) ==
    LET d1 == IF LAT \notin df.columns THEN WithColumn(df, LAT, NA) ELSE df
    IN  IF LON \notin d1.columns THEN WithColumn(d1, LON, NA) ELSE d1

NeedsGeocodingMut(row) == TRUE

\* One entry of need_mask: lat or lon does not parse as a number.
NeedsGeocoding(row) == isna(to_numeric(row[LAT])) \/ isna(to_numeric(row[LON]))

\* need_mask, as the set of index labels it selects.
NeedMask(df) == {k \in 1..Len(df.rows) : NeedsGeocoding(df.rows[k])}

RECURSIVE SetToSortedSeq(_)
\* The members of a set of integers in increasing order.
SetToSortedSeq(S) ==
    IF S = {} THEN <<>>
    ELSE LET m == CHOOSE x \in S : \A y \in S : x <= y
         IN  <<m>> \o SetToSortedSeq(S \ {m})

\* todo = base[need_mask]: the index labels of the work-set, in dataset order.
Todo(df, mask) == SetToSortedSeq(mask)

KeyPresentMut(key) == TRUE

\* `if not ORS_API_KEY` (line 98), negated: the key is a non-empty string.
KeyPresent(key) == key

\* Lines 90-94.
trigger_geo(auto, need_any, key, button) ==
    (auto /\ need_any /\ key) \/ button

\* Lines 108-111: the geocode query of a work-set row.
BuildQuery(row, columns) ==
    LET parts == <<PyStr(row[LOCATION])>>
                 \o (IF CUSTOMER \in columns THEN <<PyStr(row[CUSTOMER])>> ELSE <<>>)
        IsKept(p) == p /= <<>> /\ lower(p) /= <<"n", "a", "n">>
    IN  strip(join(<<" ">>, SelectSeq(parts, IsKept)))

\* ------------------------------------------------------------ geocode client
\* What the network can answer to one request: an exception (timeout,
\* connection error, malformed body), a status other than 200, a body with
\* no features, or features whose first one carries [lon, lat].
Coordinates == {<<2, 48>>}

Responses ==
    {[kind |-> k, coordinates |-> <<0, 0>>] : k \in {"exception", "non200", "nofeatures"}}
    \cup {[kind |-> "ok", coordinates |-> c] : c \in Coordinates}

\* ors_geocode, given the answer to its request: (lat, lon) or (None, None).
ors_geocode(response) ==
    IF response.kind = "ok"
    THEN <<NumV(response.coordinates[2]), NumV(response.coordinates[1])>>
    ELSE <<NA, NA>>

\* Lines 113-115: both coordinates are written, or none.
WriteCoordinates(df, idx, lat, lon) ==
    IF ~isna(lat) /\ ~isna(lon)
    THEN [df EXCEPT !.rows[idx][LAT] = lat, !.rows[idx][LON] = lon]
    ELSE df

\* ------------------------------------------------------- merge by __row_id__
HasDuplicates(seq) == \E a, b \in 1..Len(seq) : a /= b /\ seq[a] = seq[b]

\* df.set_index(key): the key column becomes the index.
set_index(df, key) ==
    [index |-> [k \in 1..Len(df.rows) |-> df.rows[k][key]],
     columns |-> df.columns \ {key},
     rows |-> [k \in 1..Len(df.rows) |->
                 [c \in df.columns \ {key} |-> df.rows[k][c]]]]

\* other.reindex(self.index) inside DataFrame.update raises ValueError on an
\* other whose index holds a label twice (unless both indexes are equal).
UpdateRaises(self, other) ==
    other.index /= self.index /\ HasDuplicates(other.index)

\* DataFrame.update, overwrite=True: only the non-NA cells of other are taken.
Overwrites(this, that) == ~isna(that)

\* self.update(other): aligned on the index, column by column.
update(self, other) ==
    [self EXCEPT !.rows =
        [k \in 1..Len(self.rows) |->
            IF \E j \in 1..Len(other.rows) : other.index[j] = self.index[k]
            THEN LET j == CHOOSE j \in 1..Len(other.rows) :
                              other.index[j] = self.index[k]
                 IN  [c \in self.columns |->
                        IF c \in other.columns
                           /\ Overwrites(self.rows[k][c], other.rows[j][c])
                        THEN other.rows[j][c]
                        ELSE self.rows[k][c]]
            ELSE self.rows[k]]]

\* indexed.reset_index(): the index goes back into a column.
reset_index(indexed, key) ==
    [columns |-> indexed.columns \cup {key},
     rows |-> [k \in 1..Len(indexed.rows) |->
                 [c \in indexed.columns \cup {key} |->
                    IF c = key THEN indexed.index[k] ELSE indexed.rows[k][c]]]]

ApplyEditsMut(full, edited) == edited

\* Lines 247-250: the value stored in st.session_state.df_base.
ApplyEdits(full, edited) ==
    reset_index(update(set_index(full, ROW_ID), set_index(edited, ROW_ID)), ROW_ID)

\* ------------------------------------------------- the filtered, edited view
\* Lines 127-133 and the editor's row deletion: the rows of base that are
\* still in the view, in dataset order.
filtered(df, keep) ==
    [columns |-> df.columns,
     rows |-> [k \in 1..Cardinality(keep) |-> df.rows[SetToSortedSeq(keep)[k]]]]

\* The values a user types into a cell of the editor.
CellValues(col) ==
    CASE col = REMARKS -> {NA, StrV(<<"o", "k">>)}
      [] col = LOCATION -> {StrV(<<" ">>)}
      [] col = ROW_ID -> {NumV(1), NumV(9)}
      [] OTHER -> {}

\* Largest number of rows added in the editor before one Apply.
MaxAdded == 1

\* A row added in the editor: every cell empty but the Location typed in.
AddedRow(columns) ==
    [c \in columns |-> IF c = LOCATION THEN StrV(<<"B", "x">>) ELSE NA]

\* What the user did in the editor: at most one cell typed over, rows added.
EditOps(view) ==
    {[op |-> "none", pos |-> 0, col |-> "", val |-> NA, added |-> a] : a \in 0..MaxAdded}
    \cup {[op |-> "set", pos |-> k, col |-> c, val |-> v, added |-> 0] :
            k \in 1..Len(view.rows), c \in {REMARKS, LOCATION, ROW_ID},
            v \in CellValues(REMARKS) \cup CellValues(LOCATION)
                  \cup CellValues(ROW_ID)}

ValidEdit(e) == e.op = "set" => e.val \in CellValues(e.col)

\* st.data_editor's return value.
data_editor(view, e) ==
    LET typed == IF e.op = "set"
                 THEN [view EXCEPT !.rows[e.pos][e.col] = e.val]
                 ELSE view
    IN  [typed EXCEPT !.rows = typed.rows
                        \o [k \in 1..e.added |-> AddedRow(view.columns)]]

\* ------------------------------------------------------------ uploaded files
\* The rows a CSV is cut from: a row that has its coordinates, two rows with
\* the same address, a row with no address, and a row of a text column whose
\* lat reads as a number and whose lon is empty.
CsvRows ==
    <<[Location |-> StrV(<<"P", "a">>), Customer |-> NA, lat |-> NumV(10), lon |-> NumV(20)],
      [Location |-> StrV(<<"P", "a">>), Customer |-> NA, lat |-> NA, lon |-> NA],
      [Location |-> StrV(<<"P", "a">>), Customer |-> NA, lat |-> NA, lon |-> NA],
      [Location |-> NA, Customer |-> NA, lat |-> NA, lon |-> NA],
      [Location |-> StrV(<<"B", "x">>), Customer |-> StrV(<<"A", "c">>),
       lat |-> StrV(<<"7">>), lon |-> NA]>>

\* The CSVs of at most MaxRows consecutive rows of CsvRows.
RowSeqs ==
    {SubSeq(CsvRows, a, z) : a \in 1..Len(CsvRows), z \in 0..Len(CsvRows)}

ColumnSets == {{LOCATION, CUSTOMER, LAT, LON}, {LOCATION}, {CUSTOMER}}

Files ==
    {[name |-> IF LOCATION \in cols THEN "crm.csv" ELSE "other.csv",
      columns |-> cols,
      rows |-> [k \in 1..Len(rs) |-> [c \in cols |-> rs[k][c]]]] :
        cols \in ColumnSets,
        rs \in {r \in RowSeqs : Len(r) <= MaxRows}}

\* --------------------------------------------------------------------- state
VARIABLES
    file,          \* the file in st.file_uploader (NoFile when none)
    has_df_base,   \* "df_base" in st.session_state
    df_base,       \* st.session_state.df_base, the authoritative dataset
    file_name,     \* st.session_state.file_name
    auto_geocode,  \* the sidebar checkbox
    ORS_API_KEY,   \* whether st.secrets holds a non-empty ORS_API_KEY
    base,          \* the script run's local copy of df_base
    need_mask,     \* index labels of the rows that lacked numeric lat/lon
    triggered,     \* trigger_geo of the current script run
    todo,          \* index labels of the work-set, in order
    i,             \* number of work-set rows the loop has processed
    pc,            \* where the current script run is, or how it ended
    events,        \* user events so far
    calls,         \* the ors_geocode invocations of the current script run
    written,       \* index labels whose lat/lon the current run has written
    errors,        \* st.error("Missing ORS_API_KEY...") calls of the current run
    run_start,     \* base when the current script run computed need_mask
    session_start, \* df_base when the current script run started
    prev_enrich,   \* a geocoding run completed and the dataset is as it left it
    merged         \* the last Apply: the full dataset and view it merged

vars == <<file, has_df_base, df_base, file_name, auto_geocode, ORS_API_KEY, base,
          need_mask, triggered, todo, i, pc, events, calls, written, errors,
          run_start, session_start, prev_enrich, merged>>

NoMerge == [done |-> FALSE, raised |-> FALSE, full |-> EmptyFrame, edited |-> EmptyFrame]

Init ==
    /\ file = NoFile
    /\ has_df_base = FALSE
    /\ df_base = EmptyFrame
    /\ file_name = ""
    /\ auto_geocode = TRUE
    /\ ORS_API_KEY \in BOOLEAN
    /\ base = EmptyFrame
    /\ need_mask = {}
    /\ triggered = FALSE
    /\ todo = <<>>
    /\ i = 0
    /\ pc = "no_file"
    /\ events = 0
    /\ calls = <<>>
    /\ written = {}
    /\ errors = 0
    /\ run_start = EmptyFrame
    /\ session_start = EmptyFrame
    /\ prev_enrich = FALSE
    /\ merged = NoMerge

\* ------------------------------------------------------------- a script run
\* One run of the script from line 56 on, with the widget values of the
\* event that started it: the uploaded file f, the checkbox auto, the button
\* that was clicked ("none", "geocode" or "apply") and, for Apply, the rows
\* kept in the view and the edit made in the editor.  The run ends at
\* st.stop(), at the end of the script, or enters the geocoding loop.
ScriptRun(f, auto, button, keep, e) ==
    LET reload == ~has_df_base \/ file_name /= f.name
        df0 == IF reload THEN load_csv(f) ELSE df_base
        b == EnsureColumns(df0)
        mask == NeedMask(b)
        trig == trigger_geo(auto, mask /= {}, ORS_API_KEY, button = "geocode")
        work == Todo(b, mask)
        edited == data_editor(filtered(b, keep), e)
        raises == UpdateRaises(set_index(b, ROW_ID), set_index(edited, ROW_ID))
    IN
    /\ file' = f
    /\ auto_geocode' = auto
    /\ calls' = <<>>
    /\ written' = {}
    /\ i' = 0
    /\ UNCHANGED ORS_API_KEY
    /\ IF f = NoFile
       THEN \* lines 65-67
            /\ pc' = "no_file"
            /\ session_start' = df_base
            /\ triggered' = FALSE
            /\ errors' = 0
            /\ todo' = <<>>
            /\ need_mask' = {}
            /\ merged' = NoMerge
            /\ base' = EmptyFrame
            /\ run_start' = EmptyFrame
            /\ UNCHANGED <<has_df_base, df_base, file_name, prev_enrich>>
       ELSE /\ has_df_base' = TRUE
            /\ file_name' = f.name
            /\ session_start' = df0
            /\ IF LOCATION \notin df0.columns
               THEN \* lines 76-78
                    /\ pc' = "no_location"
                    /\ df_base' = df0
                    /\ base' = df0
                    /\ run_start' = df0
                    /\ triggered' = FALSE
                    /\ errors' = 0
                    /\ todo' = <<>>
                    /\ need_mask' = {}
                    /\ merged' = NoMerge
                    /\ prev_enrich' = (prev_enrich /\ ~reload)
               ELSE /\ base' = b
                    /\ run_start' = b
                    /\ need_mask' = mask
                    /\ triggered' = trig
                    /\ IF trig /\ KeyPresent(ORS_API_KEY) /\ Len(work) > 0
                       THEN \* lines 101-107: the loop starts
                            /\ pc' = "geocoding"
                            /\ todo' = work
                            /\ errors' = 0
                            /\ df_base' = df0
                            /\ merged' = NoMerge
                            /\ prev_enrich' = (prev_enrich /\ ~reload)
                       ELSE \* line 99 or 104, or no geocoding; the script
                            \* goes on to the filters and the editor
                            /\ pc' = "editor"
                            /\ todo' = <<>>
                            /\ errors' = IF trig /\ ~KeyPresent(ORS_API_KEY) THEN 1 ELSE 0
                            /\ IF button = "apply" /\ ~raises
                               THEN /\ df_base' = ApplyEdits(b, edited)
                                    /\ merged' = [done |-> TRUE, raised |-> FALSE,
                                                  full |-> b, edited |-> edited]
                                    /\ prev_enrich' = FALSE
                               ELSE /\ df_base' = df0
                                    /\ merged' = IF button = "apply"
                                                 THEN [done |-> TRUE, raised |-> TRUE,
                                                       full |-> b, edited |-> edited]
                                                 ELSE NoMerge
                                    /\ prev_enrich' =
                                         IF reload THEN FALSE
                                         ELSE IF trig /\ KeyPresent(ORS_API_KEY) THEN TRUE
                                         ELSE prev_enrich

NoEdit == [op |-> "none", pos |-> 0, col |-> "", val |-> NA, added |-> 0]

\* The script is not running, or can be interrupted: a widget event stops a
\* running script at its next Streamlit call and starts a new run.
Interactive == pc \in {"no_file", "no_location", "editor", "geocoding", "stopped"}

\* The user uploads a file, or removes the uploaded one.
Upload(f) ==
    /\ Interactive
    /\ events < MaxEvents
    /\ f /= file
    /\ events' = events + 1
    /\ ScriptRun(f, auto_geocode, "none", {}, NoEdit)

\* The user ticks or unticks "Auto-geocode on upload if lat/lon missing".
ToggleAuto ==
    /\ Interactive
    /\ events < MaxEvents
    /\ events' = events + 1
    /\ ScriptRun(file, ~auto_geocode, "none", {}, NoEdit)

\* The user clicks the Geocode button (line 93).
ClickGeocode ==
    /\ pc \in {"editor", "geocoding", "stopped"}
    /\ events < MaxEvents
    /\ events' = events + 1
    /\ ScriptRun(file, auto_geocode, "geocode", {}, NoEdit)

\* The user filters, edits the view and clicks Apply Edits (line 246).
ClickApply(keep, e) ==
    /\ pc = "editor"
    /\ events < MaxEvents
    /\ events' = events + 1
    /\ ScriptRun(file, auto_geocode, "apply", keep, e)

\* The user stops the running script: the run ends where it is.
StopScript ==
    /\ pc = "geocoding"
    /\ events < MaxEvents
    /\ events' = events + 1
    /\ pc' = "stopped"
    /\ UNCHANGED <<file, has_df_base, df_base, file_name, auto_geocode, ORS_API_KEY,
                   base, need_mask, triggered, todo, i, calls, written, errors,
                   run_start, session_start, prev_enrich, merged>>

\* Lines 107-117: one pass of the loop, for the next work-set row.
GeocodeRow(response) ==
    /\ pc = "geocoding"
    /\ i < Len(todo)
    /\ LET idx == todo[i + 1]
           q == BuildQuery(run_start.rows[idx], base.columns)
           res == ors_geocode(response)
       IN  /\ calls' = Append(calls, [idx |-> idx, q |-> q, lat |-> res[1], lon |-> res[2]])
           /\ base' = WriteCoordinates(base, idx, res[1], res[2])
           /\ written' = IF ~isna(res[1]) /\ ~isna(res[2]) THEN written \cup {idx}
                         ELSE written
    /\ i' = i + 1
    /\ UNCHANGED <<file, has_df_base, df_base, file_name, auto_geocode, ORS_API_KEY,
                   need_mask, triggered, todo, pc, events, errors, run_start,
                   session_start, prev_enrich, merged>>

\* Lines 118-122: the loop is over, the copy is stored and a rerun is asked.
FinishGeocoding ==
    /\ pc = "geocoding"
    /\ i = Len(todo)
    /\ df_base' = base
    /\ pc' = "rerun"
    /\ prev_enrich' = TRUE
    /\ UNCHANGED <<file, has_df_base, file_name, auto_geocode, ORS_API_KEY, base,
                   need_mask, triggered, todo, i, events, calls, written, errors,
                   run_start, session_start, merged>>

\* st.rerun(): the script runs again with the same widget values, no button
\* clicked.  Streamlit's rerun signal is not an Exception subclass, so the
\* `except Exception` of line 123 does not swallow it.
Rerun ==
    /\ pc = "rerun"
    /\ UNCHANGED events
    /\ ScriptRun(file, auto_geocode, "none", {}, NoEdit)

Next ==
    \/ \E f \in Files \cup {NoFile} : Upload(f)
    \/ ToggleAuto
    \/ ClickGeocode
    \/ \E keep \in SUBSET (1..Len(df_base.rows)) :
         \E e \in EditOps(filtered(EnsureColumns(df_base), keep)) :
            ValidEdit(e) /\ ClickApply(keep, e)
    \/ StopScript
    \/ \E response \in Responses : GeocodeRow(response)
    \/ FinishGeocoding
    \/ Rerun

Spec == Init /\ [][Next]_vars

\* The script runner always carries a started run on: the loop's next pass,
\* the end of the loop, the rerun it asked for.  The user owes nothing.
ScriptStep ==
    \/ \E response \in Responses : GeocodeRow(response)
    \/ FinishGeocoding
    \/ Rerun

FairSpec == Spec /\ WF_vars(ScriptStep)

\* ------------------------------------------------------------------- claims
\* A cell of a frame, NA where the frame has no such column.
Cell(df, k, col) == IF col \in df.columns THEN df.rows[k][col] ELSE NA

\* The positions of the view's rows whose RowID is (is not) in the full dataset.
FullIds == {merged.full.rows[k][ROW_ID] : k \in 1..Len(merged.full.rows)}
ViewIds == {merged.edited.rows[j][ROW_ID] : j \in 1..Len(merged.edited.rows)}
ViewUnique == ~HasDuplicates(RowIds(merged.edited))
Applied == merged.done /\ pc = "editor"

\* C1: after Apply Edits, every row of the full dataset whose RowID is not in
\* the edited view is still in the stored dataset, with the same RowID and
\* the same value in every field.
C1_RowsOutsideViewUnchanged ==
    Applied =>
        \A k \in 1..Len(session_start.rows) :
            session_start.rows[k][ROW_ID] \notin ViewIds =>
                \E m \in 1..Len(df_base.rows) :
                    \A c \in session_start.columns :
                        Cell(df_base, m, c) = session_start.rows[k][c]

\* C1 witness: an Apply that changed the dataset while a row was filtered
\* out of the view.
C1_Witness ==
    /\ Applied
    /\ ~merged.raised
    /\ df_base /= merged.full
    /\ \E k \in 1..Len(session_start.rows) :
          session_start.rows[k][ROW_ID] \notin ViewIds

\* C2: after Apply Edits, for every row of the edited view whose RowID is in
\* the full dataset, every field of the view holds the view's value in the
\* stored row with that RowID, whatever the value (string, number, missing).
C2_ViewValuesStored ==
    (Applied /\ ViewUnique) =>
        \A j \in 1..Len(merged.edited.rows) :
            \A m \in 1..Len(df_base.rows) :
                df_base.rows[m][ROW_ID] = merged.edited.rows[j][ROW_ID] =>
                    \A c \in merged.edited.columns :
                        df_base.rows[m][c] = merged.edited.rows[j][c]

\* C3: after Apply Edits, the stored dataset has grown by the number of view
\* rows whose RowID is not in the full dataset, and its RowIDs are unique.
C3_AddedRowsAppended ==
    (Applied /\ ViewUnique) =>
        /\ Len(df_base.rows) = Len(merged.full.rows)
             + Cardinality({j \in 1..Len(merged.edited.rows) :
                              merged.edited.rows[j][ROW_ID] \notin FullIds})
        /\ ~HasDuplicates(RowIds(df_base))

\* C4: a geocoding run that follows a completed geocoding run, the dataset
\* being as that run left it, invokes the geocode client zero times.
C4_SecondRunNoCalls ==
    (prev_enrich /\ pc = "geocoding") => calls = <<>>

\* C5: the geocode client is never invoked for a work-set row whose query
\* is empty.
C5_NoCallForEmptyQuery ==
    \A a \in 1..Len(calls) : calls[a].q /= <<>>

\* C6: within one run the geocode client is invoked at most once per
\* distinct query text.
C6_OneCallPerQuery ==
    \A a, b \in 1..Len(calls) : a /= b => calls[a].q /= calls[b].q

\* C7: when geocoding is triggered without the API key, the error is
\* reported once, the client is not invoked, no lat/lon is written and the
\* stored dataset is the one the run started with.
C7_MissingKeyNoWork ==
    (triggered /\ ~ORS_API_KEY) =>
        /\ errors = 1
        /\ pc = "editor"
        /\ calls = <<>>
        /\ written = {}
        /\ base = run_start
        /\ df_base = session_start

\* C7 witness: the Geocode button clicked without a key, on rows that lack
\* coordinates.
C7_Witness ==
    /\ triggered
    /\ ~ORS_API_KEY
    /\ need_mask /= {}
    /\ errors = 1

BothNumeric(df, k) ==
    ~isna(to_numeric(Cell(df, k, LAT))) /\ ~isna(to_numeric(Cell(df, k, LON)))
CallsFor(k) == {a \in 1..Len(calls) : calls[a].idx = k}
Resolved(c) == ~isna(c.lat) /\ ~isna(c.lon)

\* C8: a row whose lat and lon both parse as numbers when the run starts is
\* never looked up nor written; a looked-up row gets both coordinates of a
\* resolved lookup, and keeps its lat/lon as they were otherwise.
C8_SnapshotAndAtomicWrite ==
    /\ Len(base.rows) = Len(run_start.rows)
    /\ \A k \in 1..Len(run_start.rows) :
          /\ BothNumeric(run_start, k) =>
                /\ CallsFor(k) = {}
                /\ k \notin written
          /\ (\A a \in CallsFor(k) : ~Resolved(calls[a])) =>
                /\ base.rows[k] = run_start.rows[k]
                /\ k \notin written
          /\ \A a \in CallsFor(k) :
                Resolved(calls[a]) =>
                    /\ Cell(base, k, LAT) = calls[a].lat
                    /\ Cell(base, k, LON) = calls[a].lon
                    /\ k \in written

\* C8 witness: the loop is over, a row that had both coordinates was left
\* alone and a row of the work-set was resolved and written.
C8_Witness ==
    /\ pc = "rerun"
    /\ \E k \in 1..Len(run_start.rows) : BothNumeric(run_start, k)
    /\ \E a \in 1..Len(calls) : Resolved(calls[a]) /\ calls[a].idx \in written

\* C9: when a geocoding run is stopped before its loop ends, the coordinates
\* it wrote are in the stored dataset.
C9_PartialProgressKept ==
    pc = "stopped" =>
        \A k \in written :
            /\ Cell(df_base, k, LAT) = base.rows[k][LAT]
            /\ Cell(df_base, k, LON) = base.rows[k][LON]

\* C10: with auto-geocode on and the key present, a geocoding run is followed
\* by a script run that does not loop again: one that reaches the editor (or
\* the user stops or replaces it).
C10_RerunChainEnds ==
    (pc = "geocoding" /\ auto_geocode /\ ORS_API_KEY)
        ~> (pc \in {"editor", "stopped", "no_file", "no_location"})

====
